---- MODULE Spec2Model ----
(***************************************************************************)
(* pcarp: a reader for pcap-ng capture files.                              *)
(*                                                                         *)
(* The model follows Capture (src/src/lib.rs): new, next = advance + get,  *)
(* lookup_interface, with the block parser of src/src/block.rs and the     *)
(* option loop of Interface::from_desc (src/src/types.rs).  The byte       *)
(* source is a finite sequence of bytes; the buffered reader (buf_redux    *)
(* BufReader with the MinBuffered policy) is modelled by the buffer it     *)
(* holds and the position it has reached in the source.                    *)
(*                                                                         *)
(* Integers of the model checker are 32-bit signed.  Every byte of every   *)
(* input is therefore below 128, which keeps every u32 a parser can read   *)
(* (aligned or not) below 2^31; usize is 64-bit in the build, so no        *)
(* addition of the code wraps within these inputs.                         *)
(***************************************************************************)
EXTENDS Integers, Sequences, FiniteSets, TLC

(***************************************************************************)
(* Bounds of the model.                                                    *)
(***************************************************************************)
\* Number of blocks that follow the first block in the generated inputs.
MaxBlocks == 2
\* MinBuffered(DEFAULT_MIN_BUFFERED) of the reader, scaled down from 8 KiB
\* so that a block can be larger than what the reader is obliged to buffer.
MinBuffered == 32

\* The caller rewinds at most MaxRewinds times, and at most MaxIoErrors
\* reads of the source fail.
MaxRewinds == 1
MaxIoErrors == 1
\* Options in an option list handed to parse_options.
MaxOpts == 3
\* Bytes after the cursor handed to read_bytes.
MaxRemaining == 6

(***************************************************************************)
(* Option values, bytes and integer reads.                                 *)
(***************************************************************************)
None == <<>>
Some(x) == <<x>>

Min(a, b) == IF a < b THEN a ELSE b

\* Rust's s[a..b] (0-based, half-open); the caller checks the bounds.
Slice(s, a, b) == SubSeq(s, a + 1, b)

\* Rust's s[a..]
From(s, a) == SubSeq(s, a + 1, Len(s))

\* ByteOrder::read_u16 / read_u32 of BigEndian and LittleEndian.
read_u16(B, s) ==
    IF B = "Big" THEN s[1] * 256 + s[2] ELSE s[2] * 256 + s[1]

read_u32(B, s) ==
    IF B = "Big"
    THEN ((s[1] * 256 + s[2]) * 256 + s[3]) * 256 + s[4]
    ELSE ((s[4] * 256 + s[3]) * 256 + s[2]) * 256 + s[1]

\* The writer's side: n as w bytes in byte order B.
Bytes(B, n, w) ==
    IF B = "Big"
    THEN [i \in 1..w |-> (n \div (256 ^ (w - i))) % 256]
    ELSE [i \in 1..w |-> (n \div (256 ^ (i - 1))) % 256]

U16(B, n) == Bytes(B, n, 2)
U32(B, n) == Bytes(B, n, 4)

Zeros(n) == [i \in 1..n |-> 0]

\* Padding to a 32-bit boundary.
PadLen(n) == (4 - (n % 4)) % 4
Padded(s) == s \o Zeros(PadLen(Len(s)))

(***************************************************************************)
(* Results of fallible operations: Ok(v), Err(e), or a panic (an index or  *)
(* slice out of range aborts the program).                                 *)
(***************************************************************************)
Ok(x) == [st |-> "ok", err |-> "", v |-> x]
Err(e) == [st |-> "err", err |-> e, v |-> None]
Panic == [st |-> "panic", err |-> "index out of range", v |-> None]

\* require_bytes(buf, len) succeeds
require_bytes(buf, len) == Len(buf) >= len

(***************************************************************************)
(* Endianness::parse_from_magic and peek_for_shb.                          *)
(***************************************************************************)
MagicBig == <<26, 43, 60, 77>>
MagicLittle == <<77, 60, 43, 26>>
ShbTypeBytes == <<10, 13, 13, 10>>

\* parse_from_magic with a slip: the two magics are taken for each other.
parse_from_magic_swapped(magic) ==
    IF magic = MagicBig THEN Ok("Little")
    ELSE IF magic = MagicLittle THEN Ok("Big")
    ELSE Err("DidntUnderstandMagicNumber")

parse_from_magic(magic) ==
    IF magic = MagicBig THEN Ok("Big")
    ELSE IF magic = MagicLittle THEN Ok("Little")
    ELSE Err("DidntUnderstandMagicNumber")

\* peek_for_shb with a slip: a block of another type is taken for the
\* header of a little-endian section.
peek_for_shb_any_type(buf) ==
    IF ~require_bytes(buf, 4) THEN Err("NotEnoughBytes")
    ELSE IF Slice(buf, 0, 4) # ShbTypeBytes THEN Ok(Some("Little"))
    ELSE IF ~require_bytes(buf, 12) THEN Err("NotEnoughBytes")
    ELSE LET m == parse_from_magic(Slice(buf, 8, 12))
         IN IF m.st = "ok" THEN Ok(Some(m.v)) ELSE m

peek_for_shb(buf) ==
    IF ~require_bytes(buf, 4) THEN Err("NotEnoughBytes")
    ELSE IF Slice(buf, 0, 4) # ShbTypeBytes THEN Ok(None)
    ELSE IF ~require_bytes(buf, 12) THEN Err("NotEnoughBytes")
    ELSE LET m == parse_from_magic(Slice(buf, 8, 12))
         IN IF m.st = "ok" THEN Ok(Some(m.v)) ELSE m

(***************************************************************************)
(* Block bodies (src/src/block.rs).  A decoded block is a record with the  *)
(* fields of all variants; a variant leaves the fields it lacks at their   *)
(* defaults.  packet_data is a range <<start, end>> into the body.  The    *)
(* 64-bit timestamp is kept as its two 32-bit words and the shift applied  *)
(* to the high word: its value is hi * 2^sh + lo.                          *)
(***************************************************************************)
NoTs == [hi |-> 0, lo |-> 0, sh |-> 0]

Blk(k) ==
    [k |-> k, endianness |-> "", interface_id |-> 0, timestamp |-> NoTs,
     captured_len |-> 0, packet_len |-> 0, packet_data |-> <<0, 0>>,
     link_type |-> 0, snap_len |-> 0, options |-> <<>>, record_values |-> <<>>]

\* The decoder with a slip: the byte order recorded is always little-endian.
SectionHeader_parse_records_little(B, buf) ==
    IF ~require_bytes(buf, 16) THEN Err("NotEnoughBytes")
    ELSE Ok([Blk("SectionHeader") EXCEPT
                !.endianness = "Little",
                !.options = From(buf, 16)])

SectionHeader_parse(B, buf) ==
    IF ~require_bytes(buf, 16) THEN Err("NotEnoughBytes")
    ELSE Ok([Blk("SectionHeader") EXCEPT
                !.endianness = B,
                !.options = From(buf, 16)])

InterfaceDescription_parse(B, buf) ==
    IF ~require_bytes(buf, 8) THEN Err("NotEnoughBytes")
    ELSE Ok([Blk("InterfaceDescription") EXCEPT
                !.link_type = read_u16(B, Slice(buf, 0, 2)),
                !.snap_len = read_u32(B, Slice(buf, 4, 8)),
                !.options = From(buf, 8)])

EnhancedPacket_parse(B, buf) ==
    IF Len(buf) < 16 THEN Panic   \* &buf[12..16] before any length check
    ELSE LET captured_len == read_u32(B, Slice(buf, 12, 16))
         IN IF ~require_bytes(buf, 20 + captured_len) THEN Err("NotEnoughBytes")
            ELSE Ok([Blk("EnhancedPacket") EXCEPT
                        !.interface_id = read_u32(B, Slice(buf, 0, 4)),
                        !.timestamp = [hi |-> read_u32(B, Slice(buf, 4, 8)),
                                       lo |-> read_u32(B, Slice(buf, 8, 12)),
                                       sh |-> 32],
                        !.captured_len = captured_len,
                        !.packet_len = read_u32(B, Slice(buf, 16, 20)),
                        !.packet_data = <<20, 20 + captured_len>>,
                        !.options = From(buf, 20 + captured_len)])

SimplePacket_parse(B, buf) ==
    IF Len(buf) < 4 THEN Panic    \* &buf[0..4] before any length check
    ELSE LET packet_len == read_u32(B, Slice(buf, 0, 4))
         IN IF ~require_bytes(buf, 4 + packet_len) THEN Err("NotEnoughBytes")
            ELSE Ok([Blk("SimplePacket") EXCEPT
                        !.packet_len = packet_len,
                        !.packet_data = <<4, 4 + packet_len>>])

NameResolution_parse(B, buf) ==
    Ok([Blk("NameResolution") EXCEPT !.record_values = buf])

InterfaceStatistics_parse(B, buf) ==
    IF ~require_bytes(buf, 12) THEN Err("NotEnoughBytes")
    ELSE Ok([Blk("InterfaceStatistics") EXCEPT
                !.interface_id = read_u32(B, Slice(buf, 0, 4)),
                !.timestamp = [hi |-> read_u32(B, Slice(buf, 4, 8)),
                               lo |-> read_u32(B, Slice(buf, 8, 12)),
                               sh |-> 32],
                !.options = From(buf, 12)])

ObsoletePacket_parse(B, buf) ==
    IF Len(buf) < 16 THEN Panic   \* &buf[12..16] before any length check
    ELSE LET captured_len == read_u32(B, Slice(buf, 12, 16))
         IN IF ~require_bytes(buf, 20 + captured_len) THEN Err("NotEnoughBytes")
            ELSE Ok([Blk("ObsoletePacket") EXCEPT
                        !.interface_id = read_u16(B, Slice(buf, 0, 2)),
                        !.timestamp = [hi |-> read_u32(B, Slice(buf, 4, 8)),
                                       lo |-> read_u32(B, Slice(buf, 8, 12)),
                                       sh |-> 4],
                        !.captured_len = captured_len,
                        !.packet_len = read_u32(B, Slice(buf, 16, 20)),
                        !.packet_data = <<20, 20 + captured_len>>,
                        !.options = From(buf, 20 + captured_len)])

(***************************************************************************)
(* Block::parse: the length to discard and the decoded block.  `framed`    *)
(* records that the frame was complete and consistent, i.e. that an error  *)
(* came from the body decoder.                                             *)
(***************************************************************************)
TypeSHB == 168627466

BodyParse(B, block_type, body) ==
    CASE block_type = TypeSHB -> SectionHeader_parse(B, body)
      [] block_type = 1 -> InterfaceDescription_parse(B, body)
      [] block_type = 2 -> ObsoletePacket_parse(B, body)
      [] block_type = 3 -> SimplePacket_parse(B, body)
      [] block_type = 4 -> NameResolution_parse(B, body)
      [] block_type = 5 -> InterfaceStatistics_parse(B, body)
      [] block_type = 6 -> EnhancedPacket_parse(B, body)
      [] block_type = 7 -> Ok(Blk("IRIGTimestamp"))
      [] block_type = 8 -> Ok(Blk("Arinc429"))
      [] OTHER -> Ok(Blk("Unknown"))

Block_parse(B, buf) ==
    IF ~require_bytes(buf, 8)
    THEN [len |-> Len(buf), res |-> Err("NotEnoughBytes"), framed |-> FALSE]
    ELSE LET block_type == read_u32(B, Slice(buf, 0, 4))
             block_length == read_u32(B, Slice(buf, 4, 8))
         IN IF block_length < 12
            THEN [len |-> block_length, res |-> Err("BlockLengthTooShort"),
                  framed |-> FALSE]
            ELSE IF ~require_bytes(buf, block_length)
            THEN [len |-> block_length, res |-> Err("NotEnoughBytes"),
                  framed |-> FALSE]
            ELSE IF block_length #
                    read_u32(B, Slice(buf, block_length - 4, block_length))
            THEN [len |-> block_length, res |-> Err("BlockLengthMismatch"),
                  framed |-> FALSE]
            ELSE [len |-> block_length,
                  res |-> BodyParse(B, block_type,
                                    Slice(buf, 8, block_length - 4)),
                  framed |-> TRUE]

\* SectionHeader::parse of src/src/block/shb.rs: ensure_remaining!(buf, 12),
\* then 4 + 2 + 2 + 8 bytes are taken from buf; Buf::get_i64 panics when
\* fewer than 8 bytes remain.
shb_parse(B, buf) ==
    IF Len(buf) < 12 THEN Err("TruncatedBlock")
    ELSE IF Len(buf) < 16 THEN Panic
    ELSE Ok([Blk("SectionHeader") EXCEPT
                !.endianness = B,
                !.options = From(buf, 16)])

(***************************************************************************)
(* Interface::from_desc (src/src/types.rs): the option loop that finds     *)
(* if_tsresol.                                                             *)
(***************************************************************************)
\* u32::checked_pow(base, exp) is Some: base is 10 or 2.
checked_pow_fits(base, exp) ==
    IF base = 10 THEN exp <= 9 ELSE exp <= 31

RECURSIVE from_desc_loop(_, _, _, _)
from_desc_loop(B, options, i, units_per_sec) ==
    IF Len(options) < i + 4 THEN Ok(units_per_sec)
    ELSE LET option_type == read_u16(B, Slice(options, i, i + 2))
             option_len == read_u16(B, Slice(options, i + 2, i + 4))
             j == i + 4
             next_i == j + option_len + PadLen(option_len)
         IN CASE option_type = 0 ->
                   IF j # Len(options) THEN Err("OptionsAfterEnd")
                   ELSE Ok(units_per_sec)
              [] option_type = 9 ->
                   IF option_len # 1 THEN Err("WrongOptionLen")
                   ELSE IF j >= Len(options) THEN Panic   \* desc.options[i]
                   ELSE LET v == options[j + 1]
                            exp == v % 128
                            base == IF v \div 128 = 0 THEN 10 ELSE 2
                        IN IF ~checked_pow_fits(base, exp)
                           THEN Err("ResolutionTooHigh")
                           ELSE from_desc_loop(B, options, next_i, base ^ exp)
              [] OTHER -> from_desc_loop(B, options, next_i, units_per_sec)

\* from_desc with a slip: if_tsresol is checked but its value is not used.
from_desc_microseconds(B, id, desc) ==
    LET r == from_desc_loop(B, desc.options, 0, 1000000)
    IN IF r.st = "ok"
       THEN Ok([id |-> id, link_type |-> desc.link_type,
                units_per_sec |-> 1000000])
       ELSE r

\* from_desc with a slip: a resolution that does not fit 32 bits is
\* registered as the 0 that 2^32 wraps to.
from_desc_wrapping(B, id, desc) ==
    LET r == from_desc_loop(B, desc.options, 0, 1000000)
    IN IF r.st = "ok"
       THEN Ok([id |-> id, link_type |-> desc.link_type, units_per_sec |-> r.v])
       ELSE IF r.err = "ResolutionTooHigh"
       THEN Ok([id |-> id, link_type |-> desc.link_type, units_per_sec |-> 0])
       ELSE r

from_desc(B, id, desc) ==
    LET r == from_desc_loop(B, desc.options, 0, 1000000)
    IN IF r.st = "ok"
       THEN Ok([id |-> id, link_type |-> desc.link_type, units_per_sec |-> r.v])
       ELSE r

(***************************************************************************)
(* The framer of src/src/block/frame.rs.  Every read of the buffer goes    *)
(* through slice4, which panics as Rust's buf[i..i + 4] does when the      *)
(* range is not inside the buffer.                                         *)
(***************************************************************************)
slice4(buf, i) ==
    IF i >= 0 /\ i + 4 <= Len(buf) THEN Ok(Slice(buf, i, i + 4)) ELSE Panic

\* What parse_frame returns and the endianness it leaves.
FrameRet(res, en) == [res |-> res, endianness |-> en]

\* parse_frame with a slip: the length fields are read in the byte order
\* the caller passed, not the one the SHB's magic declares.
parse_frame_stale_order(buf, en) ==
    IF Len(buf) < 12 THEN FrameRet(Ok(None), en)
    ELSE LET ty == slice4(buf, 0)
             magic == slice4(buf, 8)
             is_shb == read_u32(en, ty.v) = TypeSHB
             e == IF ~is_shb THEN en
                  ELSE IF magic.v = MagicBig THEN "Big"
                  ELSE IF magic.v = MagicLittle THEN "Little"
                  ELSE "none"
             len1 == slice4(buf, 4)
             block_len == read_u32(en, len1.v)
             len2 == slice4(buf, block_len - 4)
         IN IF e = "none"
            THEN FrameRet(Err("DidntUnderstandMagicBytes"), en)
            ELSE IF block_len < 12
            THEN FrameRet(Err("BlockLengthTooSmall"), e)
            ELSE IF Len(buf) < block_len THEN FrameRet(Ok(None), e)
            ELSE IF len2.st = "panic" THEN FrameRet(Panic, e)
            ELSE IF block_len # read_u32(en, len2.v)
            THEN FrameRet(Err("BlockLengthMismatch"), e)
            ELSE FrameRet(Ok(Some(<<read_u32(en, ty.v),
                                    block_len - 12>>)), e)

\* The framer with a slip: the trailing length is taken from the end of the
\* buffer instead of the end of the block.
parse_frame_trailer_at_end(buf, en) ==
    IF Len(buf) < 12 THEN FrameRet(Ok(None), en)
    ELSE LET ty == slice4(buf, 0)
             magic == slice4(buf, 8)
             is_shb == read_u32(en, ty.v) = TypeSHB
             e == IF ~is_shb THEN en
                  ELSE IF magic.v = MagicBig THEN "Big"
                  ELSE IF magic.v = MagicLittle THEN "Little"
                  ELSE "none"
             len1 == slice4(buf, 4)
             block_len == read_u32(e, len1.v)
             len2 == slice4(buf, Len(buf) - 4)
         IN IF e = "none"
            THEN FrameRet(Err("DidntUnderstandMagicBytes"), en)
            ELSE IF block_len < 12
            THEN FrameRet(Err("BlockLengthTooSmall"), e)
            ELSE IF Len(buf) < block_len THEN FrameRet(Ok(None), e)
            ELSE IF len2.st = "panic" THEN FrameRet(Panic, e)
            ELSE IF block_len # read_u32(e, len2.v)
            THEN FrameRet(Err("BlockLengthMismatch"), e)
            ELSE FrameRet(Ok(Some(<<read_u32(en, ty.v),
                                    block_len - 12>>)), e)

\* parse_frame(buf, &mut endianness): en is the endianness passed.
parse_frame(buf, en) ==
    IF Len(buf) < 12 THEN FrameRet(Ok(None), en)
    ELSE LET ty == slice4(buf, 0)
             magic == slice4(buf, 8)
             is_shb == read_u32(en, ty.v) = TypeSHB
             e == IF ~is_shb THEN en
                  ELSE IF magic.v = MagicBig THEN "Big"
                  ELSE IF magic.v = MagicLittle THEN "Little"
                  ELSE "none"
             len1 == slice4(buf, 4)
             block_len == read_u32(e, len1.v)
             len2 == slice4(buf, block_len - 4)
         IN IF e = "none"
            THEN FrameRet(Err("DidntUnderstandMagicBytes"), en)
            ELSE IF block_len < 12
            THEN FrameRet(Err("BlockLengthTooSmall"), e)
            ELSE IF Len(buf) < block_len THEN FrameRet(Ok(None), e)
            ELSE IF len2.st = "panic" THEN FrameRet(Panic, e)
            ELSE IF block_len # read_u32(e, len2.v)
            THEN FrameRet(Err("BlockLengthMismatch"), e)
            ELSE FrameRet(Ok(Some(<<read_u32(en, ty.v),
                                    block_len - 12>>)), e)

(***************************************************************************)
(* read_bytes (src/src/block/util.rs) and parse_options                    *)
(* (src/src/block/opts.rs).  A u32 is kept as its two 16-bit halves, so    *)
(* that every u32 can be written; buf is what remains after the cursor.    *)
(***************************************************************************)
Wide(hi, lo) == [hi |-> hi, lo |-> lo]

\* The result of a read at the cursor: rest is what remains after it.
Cursor(res, rest) == [st |-> res.st, err |-> res.err, v |-> res.v, rest |-> rest]

\* read_bytes(buf, len) on a target whose usize has usize_bits bits.
\* len as usize + padding as usize exceeds a 32-bit usize for the last
\* three values of len: the addition panics where overflow checks are
\* compiled in, and otherwise wraps to 0, so that ensure_remaining! passes
\* and copy_to_bytes panics for lack of len bytes.
read_bytes(buf, len, usize_bits) ==
    LET padding == (4 - (len.lo % 4)) % 4
        sum_lo == (len.lo + padding) % 65536
        sum_hi == len.hi + (len.lo + padding) \div 65536
    IN IF usize_bits = 32 /\ sum_hi >= 65536 THEN Cursor(Panic, buf)
       ELSE IF sum_hi > 0 \/ Len(buf) < sum_lo
       THEN Cursor(Err("TruncatedBlock"), buf)
       ELSE Cursor(Ok(Slice(buf, 0, len.lo)), From(buf, len.lo + padding))

\* The option types parse_options keeps from the callback.
Discarded == {1, 2988, 2989, 19372, 19373}

RECURSIVE parse_options_past_end(_, _)
parse_options_past_end(buf, B) ==
    IF ~(Len(buf) > 3) THEN <<>>
    ELSE LET option_type == read_u16(B, Slice(buf, 0, 2))
             option_len == read_u16(B, Slice(buf, 2, 4))
             option_bytes == read_bytes(From(buf, 4), Wide(0, option_len), 64)
         IN IF option_bytes.st # "ok" THEN <<>>
            ELSE IF option_type \in Discarded \cup {0}
            THEN parse_options_past_end(option_bytes.rest, B)
            ELSE <<<<option_type, option_bytes.v>>>>
                 \o parse_options_past_end(option_bytes.rest, B)

\* parse_options(buf, endianness, handle): the calls of handle, in order.
\* option_len is a u16, so the usize of the target makes no difference.
RECURSIVE parse_options(_, _)
parse_options(buf, B) ==
    IF ~(Len(buf) > 3) THEN <<>>
    ELSE LET option_type == read_u16(B, Slice(buf, 0, 2))
             option_len == read_u16(B, Slice(buf, 2, 4))
             option_bytes == read_bytes(From(buf, 4), Wide(0, option_len), 64)
         IN IF option_bytes.st # "ok" THEN <<>>
            ELSE IF option_type = 0 THEN <<>>
            ELSE IF option_type \in Discarded
            THEN parse_options(option_bytes.rest, B)
            ELSE <<<<option_type, option_bytes.v>>>>
                 \o parse_options(option_bytes.rest, B)

(***************************************************************************)
(* Inputs.  A capture file is written as a sequence of blocks; a block     *)
(* descriptor says what the writer put there:                              *)
(*   k    the block kind                                                   *)
(*   bo   the byte order an SHB declares ("sec": the section's)            *)
(*   ifc  the interface_id field                                           *)
(*   cap  the captured_len field (packet_len of an SPB, snap_len of an    *)
(*        IDB)                                                             *)
(*   data the packet bytes that are present (filler of an unknown block)   *)
(*   opt  the options of an IDB                                            *)
(*   fr   how the block is framed or damaged                               *)
(***************************************************************************)
D(k, bo, ifc, cap, data, opt, fr) ==
    [k |-> k, bo |-> bo, ifc |-> ifc, cap |-> cap, data |-> data,
     opt |-> opt, fr |-> fr]

ShbL == D("SHB", "Little", 0, 0, <<>>, "none", "ok")
ShbB == D("SHB", "Big", 0, 0, <<>>, "none", "ok")
ShbBadMagic == D("SHB", "Little", 0, 0, <<>>, "none", "badmagic")
ShbShort == D("SHB", "Little", 0, 0, <<>>, "none", "shortbody")
Idb == D("IDB", "sec", 0, 4, <<>>, "none", "ok")
IdbTs9 == D("IDB", "sec", 0, 4, <<>>, "ts9", "ok")
IdbTs10 == D("IDB", "sec", 0, 4, <<>>, "ts10", "ok")
IdbTs0 == D("IDB", "sec", 0, 4, <<>>, "ts0", "ok")
IdbTsBin3 == D("IDB", "sec", 0, 4, <<>>, "tsbin3", "ok")
IdbTsBin32 == D("IDB", "sec", 0, 4, <<>>, "tsbin32", "ok")
\* IDBs whose last option is cut short: an option of 8 bytes that holds 4,
\* an if_tsresol without its value, and the former after an if_tsresol.
IdbOptTrunc == D("IDB", "sec", 0, 4, <<>>, "opttrunc", "ok")
IdbTsTrunc == D("IDB", "sec", 0, 4, <<>>, "tstrunc", "ok")
IdbTs9Trunc == D("IDB", "sec", 0, 4, <<>>, "ts9trunc", "ok")
\* An IDB with four bytes after its end-of-options record.
IdbAfterEnd == D("IDB", "sec", 0, 4, <<>>, "afterend", "ok")
\* An IDB whose body ends before snap_len.
IdbShort == D("IDB", "sec", 0, 4, <<>>, "none", "shortbody")
Epb0 == D("EPB", "sec", 0, 3, <<65, 66, 67>>, "none", "ok")
Epb1 == D("EPB", "sec", 1, 1, <<68>>, "none", "ok")
\* An EPB whose timestamp is 10^9 units.
EpbTs1e9 == D("EPB", "sec", 0, 3, <<65, 66, 67>>, "ts1e9", "ok")
EpbCapBig == D("EPB", "sec", 0, 64, <<65, 66, 67>>, "none", "ok")
EpbEmpty == D("EPB", "sec", 0, 0, <<>>, "none", "nobody")
Spb == D("SPB", "sec", 0, 4, <<69, 70, 71, 72>>, "none", "ok")
SpbTrunc == D("SPB", "sec", 0, 9, <<69, 70, 71, 72>>, "none", "ok")
Opb == D("OPB", "sec", 0, 2, <<73, 74>>, "none", "ok")
\* An OPB whose timestamp has the high word 1.
OpbHi == D("OPB", "sec", 0, 2, <<73, 74>>, "tshi", "ok")
Nrb == D("NRB", "sec", 0, 0, <<>>, "none", "ok")
Isb == D("ISB", "sec", 0, 0, <<>>, "none", "ok")
Unk == D("UNK", "sec", 0, 0, <<>>, "none", "ok")
Len0 == D("UNK", "sec", 0, 0, <<>>, "none", "len0")
Mismatch == D("UNK", "sec", 0, 0, <<>>, "none", "mismatch")
\* A header that announces more bytes than the reader buffers: with reads
\* of MinBuffered bytes the buffer ends where this block's bytes end.
Overrun == D("UNK", "sec", 0, 0, Zeros(2 * MinBuffered - 36), "none", "overrun")
Raw3 == D("UNK", "sec", 0, 0, <<1, 2, 3>>, "none", "raw")
\* A block of 15 bytes: its two length fields agree and are no multiple
\* of 4.
Unaligned == D("UNK", "sec", 0, 0, <<7, 8, 9>>, "none", "ok")

Templates ==
    {ShbL, ShbB, ShbBadMagic, ShbShort, Idb, IdbTs9, IdbTs10, IdbTs0,
     IdbTsBin3, IdbTsBin32, Epb0, Epb1, EpbTs1e9, EpbCapBig, EpbEmpty, Spb,
     SpbTrunc, Opb, OpbHi, Nrb, Isb, Unk, Len0, Mismatch, Overrun, Raw3,
     Unaligned, IdbShort, IdbOptTrunc, IdbTsTrunc, IdbTs9Trunc, IdbAfterEnd}

\* The templates every sequence of at most MaxBlocks blocks is built from;
\* the others appear in the files of Scenarios.
Combined == {ShbB, Idb, Epb0, EpbCapBig, Spb, Unk, Len0, Overrun}

TypeCode(k) ==
    CASE k = "SHB" -> TypeSHB
      [] k = "IDB" -> 1
      [] k = "OPB" -> 2
      [] k = "SPB" -> 3
      [] k = "NRB" -> 4
      [] k = "ISB" -> 5
      [] k = "EPB" -> 6
      [] OTHER -> 10

\* The low word of the timestamps written: 1.000005 s in microseconds, or
\* 10^9 units.  The high word is 0.
TsLow == 1000000 + 5

TsOf(d) == IF d.opt = "ts1e9" THEN 1000000000 ELSE TsLow

\* The high word of the timestamp written.
TsHiOf(d) == IF d.opt = "tshi" THEN 1 ELSE 0

\* The if_tsresol byte of an IDB's options (-1: no if_tsresol option).
TsresolOf(opt) ==
    CASE opt \in {"ts9", "ts9trunc"} -> 9
      [] opt = "ts10" -> 10
      [] opt = "ts0" -> 0
      [] opt = "tsbin3" -> 128 + 3
      [] opt = "tsbin32" -> 128 + 32
      [] OTHER -> -1

\* An option that announces 8 bytes of value and holds 4.
TruncatedOption(B) == U16(B, 2) \o U16(B, 8) \o <<1, 2, 3, 4>>

OptBytes(B, opt) ==
    CASE opt = "opttrunc" -> TruncatedOption(B)
      [] opt = "tstrunc" -> U16(B, 9) \o U16(B, 1)
      [] opt = "ts9trunc" ->
           U16(B, 9) \o U16(B, 1) \o <<9, 0, 0, 0>> \o TruncatedOption(B)
      [] opt = "afterend" -> Zeros(4) \o <<1, 2, 3, 4>>
      [] OTHER ->
           IF TsresolOf(opt) < 0 THEN <<>>
           ELSE U16(B, 9) \o U16(B, 1) \o <<TsresolOf(opt), 0, 0, 0>>
                \o Zeros(4)

BodyBytes(d, B) ==
    CASE d.k = "SHB" ->
           (IF d.fr = "badmagic" THEN <<1, 2, 3, 4>>
            ELSE IF B = "Big" THEN MagicBig ELSE MagicLittle)
           \o U16(B, 1) \o U16(B, 0)
           \o (IF d.fr = "shortbody" THEN <<>> ELSE Zeros(8))
      [] d.k = "IDB" ->
           IF d.fr = "shortbody" THEN U16(B, 1) \o <<0, 0>>
           ELSE U16(B, 1) \o <<0, 0>> \o U32(B, d.cap) \o OptBytes(B, d.opt)
      [] d.k = "EPB" ->
           IF d.fr = "nobody" THEN <<>>
           ELSE U32(B, d.ifc) \o U32(B, 0) \o U32(B, TsOf(d)) \o U32(B, d.cap)
                \o U32(B, d.cap) \o Padded(d.data)
      [] d.k = "OPB" ->
           U16(B, d.ifc) \o U16(B, 0) \o U32(B, TsHiOf(d)) \o U32(B, TsOf(d))
           \o U32(B, d.cap) \o U32(B, d.cap) \o Padded(d.data)
      [] d.k = "SPB" -> U32(B, d.cap) \o Padded(d.data)
      [] d.k = "NRB" -> Zeros(4)
      [] d.k = "ISB" -> U32(B, d.ifc) \o U32(B, 0) \o U32(B, TsOf(d))
      [] OTHER -> d.data

\* The byte order a block is written in.
OrderOf(d, B) == IF d.k = "SHB" THEN d.bo ELSE B

BlockBytes(d, B) ==
    LET body == BodyBytes(d, B)
        n == 12 + Len(body)
        ty == U32(B, TypeCode(d.k))
    IN CASE d.fr = "raw" -> d.data
         [] d.fr = "len0" -> ty \o U32(B, 0) \o body \o U32(B, 0)
         [] d.fr = "mismatch" -> ty \o U32(B, n) \o body \o U32(B, n + 4)
         [] d.fr = "overrun" -> ty \o U32(B, n) \o body
         [] OTHER -> ty \o U32(B, n) \o body \o U32(B, n)

RECURSIVE FileBytes(_, _, _)
FileBytes(bs, i, B) ==
    IF i > Len(bs) THEN <<>>
    ELSE LET e == OrderOf(bs[i], B)
         IN BlockBytes(bs[i], e) \o FileBytes(bs, i + 1, e)

\* Sequences of at most n templates of Combined.
RECURSIVE SeqsUpTo(_)
SeqsUpTo(n) ==
    IF n = 0 THEN {<<>>}
    ELSE LET shorter == SeqsUpTo(n - 1)
         IN shorter \cup {Append(q, t) : q \in shorter, t \in Combined}

Scenarios ==
    { <<Idb, Epb0>>,
      <<ShbBadMagic>>,
      <<Raw3>>,
      <<>>,
      <<Epb0, ShbL, Idb, Epb0>>,
      <<ShbL, Idb, Epb0, Epb0>>,
      <<ShbL, Idb, Epb0, ShbB, Idb, Idb, Epb1>>,
      <<ShbL, Idb, Epb0, ShbB, Idb, Epb0>>,
      <<ShbL, IdbTs10, Idb, Epb1>>,
      <<ShbL, Idb, EpbCapBig, Epb0>>,
      <<ShbL, Idb, Overrun, Spb>>,
      <<ShbL, Idb, Idb, Epb1, Spb, Opb>>,
      <<ShbL, Epb0, Epb0>>,
      <<ShbL, Idb, SpbTrunc, Epb0>>,
      <<ShbB, IdbTs9, EpbTs1e9>>,
      <<ShbL, IdbTs9, EpbTs1e9, Opb>>,
      <<ShbL, IdbTs0, Epb0>>,
      <<ShbB, IdbTsBin3, Epb0, Opb>>,
      <<ShbL, IdbTsBin32, Epb0>>,
      <<ShbL, Idb, IdbTsBin3, Epb1>>,
      <<ShbL, IdbTs10, Epb0>>,
      <<ShbL, IdbTs10, Idb, Epb0>>,
      <<ShbL, IdbTsBin32, Idb, Epb0, Epb1>>,
      <<ShbL, IdbShort, IdbTs9, Epb1>>,
      <<ShbL, IdbShort, Idb, Epb1, Epb0>> }
      \cup {<<f, t>> : f \in {ShbL, ShbB}, t \in Templates}
      \cup {<<ShbL, Idb, t>> : t \in Templates}
      \cup {<<ShbL, Idb, t, Epb0>> : t \in Templates}

Files == {<<ShbL>> \o q : q \in SeqsUpTo(MaxBlocks)} \cup Scenarios

\* read sizes of the byte source: short reads of MinBuffered bytes, or
\* reads that return everything asked for.
ReadSizes == {MinBuffered, 64 * MinBuffered}

(***************************************************************************)
(* State.                                                                  *)
(***************************************************************************)
VARIABLES
    blocks,             \* the blocks the file was written from
    src,                \* the bytes of the source
    chunk,              \* the most bytes one read of the source returns
    pos,                \* bytes the reader has taken from the source
    buf,                \* rdr.buffer(): bytes read and not yet consumed
    n_bytes_read,
    finished,
    endianness,
    interfaces,
    resolved_names,
    last_block_len,
    current_section,
    current_timestamp,
    current_interface,
    current_data,
    pc,                 \* "start", "idle", "advance", "failed", "panicked"
    result,             \* what the last call of next() (or new()) returned
    \* histories, since the capture was created or last rewound:
    delivered,          \* data of the packets returned
    framing_error_seen, \* next() has returned a framing error
    held,               \* interface ids of the packets returned
    declared,           \* history: byte order the last SHB decoded declares
    looked,             \* the caller's last lookup_interface call, if any
    rewinds,            \* history: calls of rewind()
    io_errors,          \* history: reads of the source that failed
    call,               \* a call of a function of src/src/block/, if any
    returned            \* what that call returned

vars ==
    <<blocks, src, chunk, pos, buf, n_bytes_read, finished, endianness,
      interfaces, resolved_names, last_block_len, current_section,
      current_timestamp, current_interface, current_data, pc, result,
      delivered, framing_error_seen, held, declared, looked, rewinds,
      io_errors, call, returned>>

\* What no action of the Capture changes.
input == <<blocks, src, chunk, call, returned>>

(***************************************************************************)
(* The buffered reader.  fill_buf reads while fewer than MinBuffered bytes *)
(* are buffered and the source has not reported end of input; consume      *)
(* discards at most what is buffered.  The buffer's capacity               *)
(* (BUF_CAPACITY, 10^7) is above every input of the model, so there is     *)
(* always room to read into.                                               *)
(***************************************************************************)
RECURSIVE fill_buf(_, _)
fill_buf(b, p) ==
    IF Len(b) >= MinBuffered \/ p = Len(src) THEN [buf |-> b, pos |-> p]
    ELSE LET n == Min(chunk, Len(src) - p)
         IN fill_buf(b \o SubSeq(src, p + 1, p + n), p + n)

consume(b, amt) == From(b, Min(amt, Len(b)))

(***************************************************************************)
(* Capture as a record, so that advance and get are functions of it.       *)
(***************************************************************************)
Cap ==
    [buf |-> buf, pos |-> pos, n_bytes_read |-> n_bytes_read,
     finished |-> finished, endianness |-> endianness,
     interfaces |-> interfaces, resolved_names |-> resolved_names,
     last_block_len |-> last_block_len, current_section |-> current_section,
     current_timestamp |-> current_timestamp,
     current_interface |-> current_interface, current_data |-> current_data]

\* `+=` on n_bytes_read, a usize of 64 bits.  The model keeps the sum up to
\* 2^30, far above every offset of its inputs, and 2^30 for a larger one
\* (reached only by adding lengths read from bytes that are no header).
add_usize(a, b) ==
    IF b >= 1073741824 \/ a >= 1073741824 - b THEN 1073741824 ELSE a + b

Ret(c, ret, err, framed) ==
    [c |-> c, ret |-> ret, err |-> err, framed |-> framed]

\* The match with a slip: the arm of the Simple Packet Block leaves the
\* timestamp and the interface of the packet before it.
handle_block_spb_keeps(c, block) ==
    CASE block.k = "SectionHeader" ->
           IF c.endianness # block.endianness
           THEN Ret(c, "panic", "assert_eq", TRUE)
           ELSE Ret([c EXCEPT !.interfaces = <<>>,
                              !.current_interface = None,
                              !.resolved_names = <<>>,
                              !.current_section = @ + 1],
                    "continue", "", TRUE)
      [] block.k = "InterfaceDescription" ->
           LET iface_id == <<c.current_section, Len(c.interfaces)>>
               r == from_desc(c.endianness, iface_id, block)
           IN IF r.st = "ok"
              THEN Ret([c EXCEPT !.interfaces = Append(@, r.v)],
                       "continue", "", TRUE)
              ELSE Ret(c, r.st, r.err, TRUE)
      [] block.k \in {"EnhancedPacket", "ObsoletePacket"} ->
           Ret([c EXCEPT !.current_timestamp = Some(block.timestamp),
                         !.current_interface = Some(block.interface_id),
                         !.current_data = block.packet_data],
               "ok", "", TRUE)
      [] block.k = "SimplePacket" ->
           Ret([c EXCEPT !.current_data = block.packet_data], "ok", "", TRUE)
      [] block.k = "NameResolution" ->
           Ret([c EXCEPT !.resolved_names = Append(@, block.record_values)],
               "continue", "", TRUE)
      [] OTHER -> Ret(c, "continue", "", TRUE)

\* The match on the decoded block in advance().
handle_block(c, block) ==
    CASE block.k = "SectionHeader" ->
           IF c.endianness # block.endianness
           THEN Ret(c, "panic", "assert_eq", TRUE)
           ELSE Ret([c EXCEPT !.interfaces = <<>>,
                              !.current_interface = None,
                              !.resolved_names = <<>>,
                              !.current_section = @ + 1],
                    "continue", "", TRUE)
      [] block.k = "InterfaceDescription" ->
           LET iface_id == <<c.current_section, Len(c.interfaces)>>
               r == from_desc(c.endianness, iface_id, block)
           IN IF r.st = "ok"
              THEN Ret([c EXCEPT !.interfaces = Append(@, r.v)],
                       "continue", "", TRUE)
              ELSE Ret(c, r.st, r.err, TRUE)
      [] block.k \in {"EnhancedPacket", "ObsoletePacket"} ->
           Ret([c EXCEPT !.current_timestamp = Some(block.timestamp),
                         !.current_interface = Some(block.interface_id),
                         !.current_data = block.packet_data],
               "ok", "", TRUE)
      [] block.k = "SimplePacket" ->
           Ret([c EXCEPT !.current_timestamp = None,
                         !.current_interface = None,
                         !.current_data = block.packet_data],
               "ok", "", TRUE)
      [] block.k = "NameResolution" ->
           Ret([c EXCEPT !.resolved_names = Append(@, block.record_values)],
               "continue", "", TRUE)
      [] OTHER -> Ret(c, "continue", "", TRUE)

\* One pass of the loop of advance(): "continue" goes round again, "ok" and
\* "err" return, "panic" aborts.
\* The pass with a slip: at the end of the input the flag is flipped
\* instead of set.
advance_iter_eof_flips(c) ==
    LET f == fill_buf(consume(c.buf, c.last_block_len), c.pos)
        c1 == [c EXCEPT !.buf = f.buf, !.pos = f.pos,
                        !.n_bytes_read = add_usize(@, c.last_block_len)]
    IN IF c1.buf = <<>>
       THEN Ret([c1 EXCEPT !.last_block_len = 0, !.finished = ~c.finished],
                "ok", "", FALSE)
       ELSE LET pk == peek_for_shb(c1.buf)
            IN IF pk.st = "err" THEN Ret(c1, "err", pk.err, FALSE)
               ELSE LET c2 == IF pk.v # None
                              THEN [c1 EXCEPT !.endianness = pk.v[1]]
                              ELSE c1
                        pr == Block_parse(c2.endianness, c2.buf)
                        c3 == [c2 EXCEPT !.last_block_len = pr.len]
                    IN IF pr.res.st = "ok" THEN handle_block(c3, pr.res.v)
                       ELSE Ret(c3, pr.res.st, pr.res.err, pr.framed)

advance_iter(c) ==
    LET f == fill_buf(consume(c.buf, c.last_block_len), c.pos)
        c1 == [c EXCEPT !.buf = f.buf, !.pos = f.pos,
                        !.n_bytes_read = add_usize(@, c.last_block_len)]
    IN IF c1.buf = <<>>
       THEN Ret([c1 EXCEPT !.last_block_len = 0, !.finished = TRUE],
                "ok", "", FALSE)
       ELSE LET pk == peek_for_shb(c1.buf)
            IN IF pk.st = "err" THEN Ret(c1, "err", pk.err, FALSE)
               ELSE LET c2 == IF pk.v # None
                              THEN [c1 EXCEPT !.endianness = pk.v[1]]
                              ELSE c1
                        pr == Block_parse(c2.endianness, c2.buf)
                        c3 == [c2 EXCEPT !.last_block_len = pr.len]
                    IN IF pr.res.st = "ok" THEN handle_block(c3, pr.res.v)
                       ELSE Ret(c3, pr.res.st, pr.res.err, pr.framed)

\* fill_buf asks the source for bytes when fewer than MinBuffered are
\* buffered.
reads_source(c) == Len(consume(c.buf, c.last_block_len)) < MinBuffered

\* A pass of the loop in which the read of the source fails: `fill_buf()?`
\* returns the error, after consume and the update of n_bytes_read.
advance_iter_failing(c) ==
    Ret([c EXCEPT !.buf = consume(c.buf, c.last_block_len),
                  !.n_bytes_read = add_usize(@, c.last_block_len)],
        "err", "IO", FALSE)

\* advance() on a source whose reads succeed: the loop, to its return.
RECURSIVE advance(_)
advance(c) ==
    LET r == advance_iter(c)
    IN IF r.ret = "continue" THEN advance(r.c) ELSE r

(***************************************************************************)
(* get(): the current packet.                                              *)
(***************************************************************************)
TsValue(ts) == IF ts.hi = 0 THEN ts.lo ELSE ts.hi * (2 ^ ts.sh) + ts.lo

\* ((ts % units_per_sec) * 1_000_000_000 / units_per_sec); when
\* units_per_sec divides 10^9 the same value is r * (10^9 / units_per_sec).
Nanos(r, units_per_sec) ==
    IF 1000000000 % units_per_sec = 0
    THEN r * (1000000000 \div units_per_sec)
    ELSE (r * 1000000000) \div units_per_sec

\* The conversion with a slip: the timestamp is taken for microseconds
\* whatever the interface's resolution.
resolve_ts_microseconds(iface, ts) ==
    [secs |-> TsValue(ts) \div 1000000,
     nanos |-> (TsValue(ts) % 1000000) * 1000]

resolve_ts(iface, ts) ==
    [secs |-> TsValue(ts) \div iface.units_per_sec,
     nanos |-> Nanos(TsValue(ts) % iface.units_per_sec, iface.units_per_sec)]

get(c) ==
    IF c.finished THEN Ok(None)
    ELSE LET interface ==
                 IF c.current_interface = None THEN None
                 ELSE Some(<<c.current_section, c.current_interface[1]>>)
             iface ==
                 IF c.current_interface # None
                    /\ c.current_interface[1] < Len(c.interfaces)
                 THEN Some(c.interfaces[c.current_interface[1] + 1])
                 ELSE None
             timestamp ==
                 IF iface # None /\ c.current_timestamp # None
                 THEN Some(resolve_ts(iface[1], c.current_timestamp[1]))
                 ELSE None
             start == c.current_data[1]
             end == c.current_data[2]
         IN IF Len(c.buf) < 8 THEN Panic     \* &self.rdr.buffer()[8..]
            ELSE IF start > end \/ end > Len(c.buf) - 8 THEN Ok(None)
            ELSE Ok(Some([timestamp |-> timestamp,
                          interface |-> interface,
                          data |-> Slice(From(c.buf, 8), start, end),
                          data_offset |-> <<start + c.n_bytes_read + 8,
                                            end + c.n_bytes_read + 8>>]))

\* Capture::new on the source, read from its start.
Capture_new ==
    LET f == fill_buf(<<>>, 0)
        pk == peek_for_shb(f.buf)
    IN IF pk.st = "err" THEN pk
       ELSE IF pk.v = None THEN Err("DidntStartWithSHB")
       ELSE Ok([buf |-> f.buf, pos |-> f.pos, n_bytes_read |-> 0,
                finished |-> FALSE, endianness |-> pk.v[1],
                interfaces |-> <<>>, resolved_names |-> <<>>,
                last_block_len |-> 0, current_section |-> 0,
                current_timestamp |-> None, current_interface |-> None,
                current_data |-> <<0, 0>>])

\* rewind(): seek discards the buffer and puts the source at offset 0; an
\* error leaves the fields assigned before it.
rewind(c) ==
    LET f == fill_buf(<<>>, 0)
        pk == peek_for_shb(f.buf)
        c1 == [c EXCEPT !.buf = f.buf, !.pos = f.pos, !.n_bytes_read = 0,
                        !.finished = FALSE]
    IN IF pk.st = "err" THEN Ret(c1, "err", pk.err, FALSE)
       ELSE IF pk.v = None THEN Ret(c1, "err", "DidntStartWithSHB", FALSE)
       ELSE Ret([c1 EXCEPT !.endianness = pk.v[1],
                           !.interfaces = <<>>,
                           !.resolved_names = <<>>,
                           !.last_block_len = 0,
                           !.current_timestamp = None,
                           !.current_interface = None,
                           !.current_data = <<0, 0>>],
                "ok", "", FALSE)

\* next() on a source whose reads succeed: the capture after the call and
\* what the call returns.
next(c) ==
    LET r == advance(c)
        g == get(r.c)
    IN [c |-> r.c,
        tag |-> CASE r.ret = "panic" -> "panic"
                  [] r.ret = "err" -> "err"
                  [] g.st = "panic" -> "panic"
                  [] g.v = None -> "none"
                  [] OTHER -> "pkt",
        err |-> r.err,
        pkt |-> IF r.ret = "ok" /\ g.st = "ok" THEN g.v ELSE None]

\* lookup_interface with a slip: the section of the id is not compared.
lookup_interface_any_section(s, i) ==
    IF i < Len(interfaces) THEN Some(interfaces[i + 1]) ELSE None

\* lookup_interface(InterfaceId(s, i))
lookup_interface(s, i) ==
    IF s # current_section THEN None
    ELSE IF i < Len(interfaces) THEN Some(interfaces[i + 1])
    ELSE None

(***************************************************************************)
(* Actions.                                                                *)
(***************************************************************************)
\* What next() returned: tag is "none" (end of stream), "pkt" or "err";
\* framed, off and len describe the block the call stopped at (whether its
\* frame was complete, the source offset it was decoded at, the length
\* advance() will discard).
Result(tag, err, framed, off, len, pkt) ==
    [tag |-> tag, err |-> err, framed |-> framed, off |-> off, len |-> len,
     pkt |-> pkt]

NoResult == Result("init", "", FALSE, 0, 0, None)

FramingErrors ==
    {"DidntUnderstandMagicNumber", "BlockLengthTooShort", "BlockLengthMismatch"}

\* The byte order the bytes at source offset off declare, when they are the
\* head of an SHB with a valid byte-order magic ("none" otherwise).
DeclaredAt(off) ==
    IF off + 12 <= Len(src) /\ Slice(src, off, off + 4) = ShbTypeBytes
    THEN IF Slice(src, off + 8, off + 12) = MagicBig THEN "Big"
         ELSE IF Slice(src, off + 8, off + 12) = MagicLittle THEN "Little"
         ELSE "none"
    ELSE "none"

Init ==
    /\ blocks \in Files
    /\ chunk \in ReadSizes
    /\ src = FileBytes(blocks, 1, "Little")
    /\ pos = 0
    /\ buf = <<>>
    /\ n_bytes_read = 0
    /\ finished = FALSE
    /\ endianness = "Little"
    /\ interfaces = <<>>
    /\ resolved_names = <<>>
    /\ last_block_len = 0
    /\ current_section = 0
    /\ current_timestamp = None
    /\ current_interface = None
    /\ current_data = <<0, 0>>
    /\ pc = "start"
    /\ result = NoResult
    /\ delivered = <<>>
    /\ framing_error_seen = FALSE
    /\ held = {}
    /\ declared = "none"
    /\ looked = None
    /\ rewinds = 0
    /\ io_errors = 0
    /\ call = None
    /\ returned = None

SetCap(c) ==
    /\ buf' = c.buf
    /\ pos' = c.pos
    /\ n_bytes_read' = c.n_bytes_read
    /\ finished' = c.finished
    /\ endianness' = c.endianness
    /\ interfaces' = c.interfaces
    /\ resolved_names' = c.resolved_names
    /\ last_block_len' = c.last_block_len
    /\ current_section' = c.current_section
    /\ current_timestamp' = c.current_timestamp
    /\ current_interface' = c.current_interface
    /\ current_data' = c.current_data

\* Capture::new
New ==
    /\ pc = "start"
    /\ \E fail \in IF io_errors < MaxIoErrors THEN BOOLEAN ELSE {FALSE} :
         LET f == fill_buf(<<>>, 0)
             r == Capture_new
         IN IF fail
            THEN /\ pc' = "failed"
                 /\ result' = Result("err", "IO", FALSE, 0, 0, None)
                 /\ io_errors' = io_errors + 1
                 /\ UNCHANGED <<buf, pos, endianness, declared>>
            ELSE /\ buf' = f.buf
                 /\ pos' = f.pos
                 /\ declared' = DeclaredAt(0)
                 /\ UNCHANGED io_errors
                 /\ IF r.st = "err"
                    THEN /\ pc' = "failed"
                         /\ result' = Result("err", r.err, FALSE, 0, 0, None)
                         /\ UNCHANGED endianness
                    ELSE /\ pc' = "idle"
                         /\ endianness' = r.v.endianness
                         /\ UNCHANGED result
    /\ UNCHANGED <<input, n_bytes_read, finished, interfaces, resolved_names,
                   last_block_len, current_section, current_timestamp,
                   current_interface, current_data, delivered,
                   framing_error_seen, held, looked, rewinds>>

\* The caller calls next(); advance() enters its loop.
CallNext ==
    /\ pc = "idle"
    /\ pc' = "advance"
    /\ looked' = None
    /\ UNCHANGED <<input, pos, buf, n_bytes_read, finished, endianness,
                   interfaces, resolved_names, last_block_len,
                   current_section, current_timestamp, current_interface,
                   current_data, result, delivered, framing_error_seen, held,
                   declared, rewinds, io_errors>>

\* One pass of the loop of advance(), in which the read of the source may
\* fail; when advance() returns, next() wraps its error or the packet of
\* get().
AdvanceStep ==
    /\ pc = "advance"
    /\ \E fail \in IF io_errors < MaxIoErrors /\ reads_source(Cap)
                   THEN BOOLEAN ELSE {FALSE} :
       LET r == IF fail THEN advance_iter_failing(Cap) ELSE advance_iter(Cap)
           off == r.c.pos - Len(r.c.buf)
           g == get(r.c)
       IN /\ SetCap(r.c)
          /\ io_errors' = (IF fail THEN io_errors + 1 ELSE io_errors)
          /\ declared' = (IF ~fail /\ r.c.buf # <<>> /\ DeclaredAt(off) # "none"
                          THEN DeclaredAt(off) ELSE declared)
          /\ CASE r.ret = "continue" ->
                    /\ pc' = "advance"
                    /\ UNCHANGED <<result, delivered, framing_error_seen, held>>
               [] r.ret = "panic" ->
                    /\ pc' = "panicked"
                    /\ UNCHANGED <<result, delivered, framing_error_seen, held>>
               [] r.ret = "err" ->
                    /\ pc' = "idle"
                    /\ result' = Result("err", r.err, r.framed, off,
                                        r.c.last_block_len, None)
                    /\ framing_error_seen' =
                           (framing_error_seen \/ r.err \in FramingErrors)
                    /\ UNCHANGED <<delivered, held>>
               [] r.ret = "ok" /\ g.st = "panic" ->
                    /\ pc' = "panicked"
                    /\ UNCHANGED <<result, delivered, framing_error_seen, held>>
               [] r.ret = "ok" /\ g.st = "ok" /\ g.v = None ->
                    /\ pc' = "idle"
                    /\ result' = Result("none", "", FALSE, off, 0, None)
                    /\ UNCHANGED <<delivered, framing_error_seen, held>>
               [] r.ret = "ok" /\ g.st = "ok" /\ g.v # None ->
                    /\ pc' = "idle"
                    /\ result' = Result("pkt", "", TRUE, off,
                                        r.c.last_block_len, g.v)
                    /\ delivered' = Append(delivered, g.v[1].data)
                    /\ held' = (IF g.v[1].interface = None THEN held
                                ELSE held \cup {g.v[1].interface[1]})
                    /\ UNCHANGED framing_error_seen
    /\ UNCHANGED <<input, looked, rewinds>>

\* Between two calls of next() the caller rewinds the capture.
Rewind ==
    /\ pc = "idle"
    /\ rewinds < MaxRewinds
    /\ LET r == rewind(Cap)
       IN /\ SetCap(r.c)
          /\ result' = (IF r.ret = "ok" THEN NoResult
                        ELSE Result("err", r.err, FALSE, 0, 0, None))
    /\ pc' = "idle"
    /\ rewinds' = rewinds + 1
    /\ delivered' = <<>>
    /\ framing_error_seen' = FALSE
    /\ held' = {}
    /\ declared' = DeclaredAt(0)
    /\ looked' = None
    /\ UNCHANGED <<input, io_errors>>

\* Between two calls of next() the caller looks up an interface id: one it
\* was given with a packet, or one of an interface of the current table.
Lookup ==
    /\ pc = "idle"
    /\ \E id \in held \cup {interfaces[k].id : k \in 1..Len(interfaces)} :
           looked' = Some([id |-> id, section |-> current_section,
                           interface |-> lookup_interface(id[1], id[2])])
    /\ UNCHANGED <<input, pos, buf, n_bytes_read, finished, endianness,
                   interfaces, resolved_names, last_block_len,
                   current_section, current_timestamp, current_interface,
                   current_data, pc, result, delivered, framing_error_seen,
                   held, declared, rewinds, io_errors>>

Next == New \/ CallNext \/ AdvanceStep \/ Lookup \/ Rewind

Spec == Init /\ [][Next]_vars

(***************************************************************************)
(* The functions of src/src/block/ (frame.rs, opts.rs, util.rs), which the *)
(* Capture above does not call, applied to arguments drawn from bounded    *)
(* sets: a behaviour of PureSpec is one call and its return.               *)
(***************************************************************************)
\* A call: len is an integer argument, its high half hi (0 unless the
\* argument is a u32), usize the width of the target's usize, and from
\* the option records buf was written from.
Call(fn, b, en, len) ==
    [fn |-> fn, buf |-> b, endianness |-> en, len |-> len, hi |-> 0,
     usize |-> 64, from |-> <<>>]

Endiannesses == {"Big", "Little"}

Prefixes(s) == {SubSeq(s, 1, n) : n \in 0..Len(s)}

\* Buffers handed to the framer: the prefixes of a block of every template,
\* written in either byte order and followed by three more bytes.
FrameBuffers ==
    UNION {Prefixes(BlockBytes(d, OrderOf(d, B)) \o <<1, 2, 3>>) :
             d \in Templates, B \in Endiannesses}

FrameCalls ==
    {Call("parse_frame", b, en, 0) : b \in FrameBuffers, en \in Endiannesses}

\* Bodies handed to the body decoders: the prefixes of the body of every
\* template that is framed as written, with the type the block carries.
BodyCalls ==
    UNION {{Call("Block::parse", b, B, TypeCode(d.k)) :
              b \in Prefixes(BodyBytes(d, OrderOf(d, B)))} :
             d \in {t \in Templates : t.fr = "ok"}, B \in Endiannesses}

ShbCalls ==
    UNION {{Call("SectionHeader::parse", b, d.bo, 0) :
              b \in Prefixes(BodyBytes(d, d.bo))} : d \in {ShbL, ShbB}}

\* An option record as a writer lays it out: type, length, value, padding.
Opt(ty, val) == [ty |-> ty, val |-> val]

OptionBytes(B, o) == U16(B, o.ty) \o U16(B, Len(o.val)) \o Padded(o.val)

RECURSIVE OptionsBytes(_, _)
OptionsBytes(B, opts) ==
    IF opts = <<>> THEN <<>>
    ELSE OptionBytes(B, Head(opts)) \o OptionsBytes(B, Tail(opts))

OptionPool ==
    {Opt(0, <<>>), Opt(1, <<>>), Opt(2, <<6, 7>>), Opt(2988, <<1, 2, 3, 4>>)}

OptionLists == UNION {[1..n -> OptionPool] : n \in 0..MaxOpts}

\* Option areas handed to parse_options: the prefixes of the bytes of an
\* option list, in either byte order.
OptionCalls ==
    UNION {{[Call("parse_options", b, B, 0) EXCEPT !.from = opts] :
              b \in Prefixes(OptionsBytes(B, opts))} :
             opts \in OptionLists, B \in Endiannesses}

\* Calls of read_bytes: a cursor with at most MaxRemaining bytes after it,
\* a len among the first and the last values of a u32, on a 32-bit and on
\* a 64-bit target.
ReadBytesCalls ==
    {[Call("read_bytes", [i \in 1..n |-> i], "Little", w.lo)
          EXCEPT !.hi = w.hi, !.usize = bits] :
       n \in 0..MaxRemaining,
       w \in {Wide(0, l) : l \in 0..MaxRemaining}
              \cup {Wide(65535, 65535 - l) : l \in 0..MaxRemaining},
       bits \in {32, 64}}

PureCalls ==
    FrameCalls \cup BodyCalls \cup ShbCalls \cup OptionCalls
    \cup ReadBytesCalls

PureInit ==
    /\ call \in PureCalls
    /\ returned = None
    /\ pc = "pure"
    /\ blocks = <<>>
    /\ src = <<>>
    /\ chunk = MinBuffered
    /\ pos = 0
    /\ buf = <<>>
    /\ n_bytes_read = 0
    /\ finished = FALSE
    /\ endianness = "Little"
    /\ interfaces = <<>>
    /\ resolved_names = <<>>
    /\ last_block_len = 0
    /\ current_section = 0
    /\ current_timestamp = None
    /\ current_interface = None
    /\ current_data = <<0, 0>>
    /\ result = NoResult
    /\ delivered = <<>>
    /\ framing_error_seen = FALSE
    /\ held = {}
    /\ declared = "none"
    /\ looked = None
    /\ rewinds = 0
    /\ io_errors = 0

\* The call returns v.
Return(v) ==
    /\ pc = "pure"
    /\ returned = None
    /\ returned' = Some(v)
    /\ UNCHANGED <<blocks, src, chunk, call, pos, buf, n_bytes_read,
                   finished, endianness, interfaces, resolved_names,
                   last_block_len, current_section, current_timestamp,
                   current_interface, current_data, pc, result, delivered,
                   framing_error_seen, held, declared, looked, rewinds,
                   io_errors>>

ApplyParseFrame ==
    /\ call.fn = "parse_frame"
    /\ Return(parse_frame(call.buf, call.endianness))

\* The body decoder Block::parse selects for the block type call.len.
ApplyBodyParse ==
    /\ call.fn = "Block::parse"
    /\ Return(BodyParse(call.endianness, call.len, call.buf))

ApplyShbParse ==
    /\ call.fn = "SectionHeader::parse"
    /\ Return(shb_parse(call.endianness, call.buf))

ApplyParseOptions ==
    /\ call.fn = "parse_options"
    /\ Return(parse_options(call.buf, call.endianness))

ApplyReadBytes ==
    /\ call.fn = "read_bytes"
    /\ Return(read_bytes(call.buf, Wide(call.hi, call.len), call.usize))

PureNext ==
    \/ ApplyParseFrame
    \/ ApplyBodyParse
    \/ ApplyShbParse
    \/ ApplyParseOptions
    \/ ApplyReadBytes

PureSpec == PureInit /\ [][PureNext]_vars

(***************************************************************************)
(* What the writer of the file put there, for comparison with what the     *)
(* reader returns.                                                         *)
(***************************************************************************)
PacketKinds == {"EPB", "SPB", "OPB"}

\* Offset in the source of the j-th block written (lengths do not depend
\* on the byte order).
StartOf(j) == Len(FileBytes(SubSeq(blocks, 1, j - 1), 1, "Little"))

TotalLength(j) == StartOf(j + 1) - StartOf(j)

IsBlockStart(off) == \E j \in 1..Len(blocks) : StartOf(j) = off

BlockIndexAt(off) == CHOOSE j \in 1..Len(blocks) : StartOf(j) = off

\* Index of the SHB that opens the section of block j (0: none).
SectionStart(bs, j) ==
    LET shbs == {i \in 1..j : bs[i].k = "SHB"}
    IN IF shbs = {} THEN 0
       ELSE CHOOSE i \in shbs : \A h \in shbs : h <= i

\* The sections opened up to and including block j.
SectionsUpTo(bs, j) == Cardinality({i \in 1..j : bs[i].k = "SHB"})

\* The IDBs of block j's section that precede block j.
IdbsBefore(bs, j) ==
    LET IsIdb(d) == d.k = "IDB"
    IN SelectSeq(SubSeq(bs, SectionStart(bs, j) + 1, j - 1), IsIdb)

WellFormedBlock(bs, j) ==
    LET d == bs[j]
        idbs == IdbsBefore(bs, j)
    IN /\ d.fr = "ok"
       /\ d.k \in {"EPB", "OPB"} =>
            d.cap = Len(d.data) /\ d.ifc < Len(idbs)
       /\ d.k = "SPB" =>
            Len(idbs) > 0 /\ Len(d.data) = Min(d.cap, idbs[1].cap)
       /\ d.k = "ISB" => d.ifc < Len(idbs)

WellFormed(bs) ==
    /\ Len(bs) > 0
    /\ bs[1].k = "SHB"
    /\ \A j \in 1..Len(bs) : WellFormedBlock(bs, j)

\* The packet data of the packet blocks, in file order.
Expected(bs) ==
    LET IsPacket(d) == d.k \in PacketKinds
        ps == SelectSeq(bs, IsPacket)
    IN [i \in 1..Len(ps) |-> ps[i].data]

IsPrefix(a, b) == Len(a) <= Len(b) /\ a = SubSeq(b, 1, Len(a))

(***************************************************************************)
(* Claims.                                                                 *)
(***************************************************************************)
\* C1: for a well-formed capture, the packets next() has returned are the
\* data of the packet blocks (EPB, SPB, OPB) in file order, one per block,
\* unpadded, and at end of stream none is missing.
C1_OnePacketPerPacketBlock ==
    (WellFormed(blocks) /\ pc = "idle") =>
        /\ IsPrefix(delivered, Expected(blocks))
        /\ result.tag = "none" => delivered = Expected(blocks)

\* C2: once next() has returned a framing error, every later call of
\* next() returns end of stream.
C2_FramingErrorEndsStream ==
    [][(framing_error_seen /\ pc = "advance" /\ pc' = "idle")
         => result'.tag = "none"]_vars

\* C3: new() followed by any number of next() calls never panics.
C3_NeverPanics == pc # "panicked"

\* C4: a caller that keeps calling next() and ignores errors eventually
\* receives end of stream; the reader cannot return errors forever.  The
\* reader is deterministic, so a call that returns an error and leaves the
\* reader exactly as it was is repeated by every later call: the claim
\* requires the pass of advance() that returns an error to change the
\* reader's state.
C4_ErrorMakesProgress ==
    [][(pc = "advance" /\ pc' = "idle" /\ result'.tag = "err")
         => Cap' # Cap]_vars

\* C5: the range data_offset of a returned packet, read back from the
\* source, is the packet's data.
C5_DataOffsetRoundTrip ==
    (pc = "idle" /\ result.tag = "pkt") =>
        LET pkt == result.pkt[1]
            start == pkt.data_offset[1]
            end == pkt.data_offset[2]
        IN /\ end - start = Len(pkt.data)
           /\ end <= Len(src)
           /\ Slice(src, start, end) = pkt.data

\* The total length the block at source offset off announces.
AnnouncedLength(off) == read_u32(endianness, Slice(src, off + 4, off + 8))

\* next() has just returned an error for a complete block whose body does
\* not decode.
BodyErrorReturned == pc = "idle" /\ result.tag = "err" /\ result.framed

\* C6: when next() returns an error for a correctly framed block whose
\* body is malformed, the reader discards exactly that block's total
\* length, the following call decodes at the offset right after the block,
\* and a well-formed packet block written there is returned by that call.
C6_BlockErrorContained ==
    BodyErrorReturned =>
        LET r == advance_iter(Cap)
            after == result.off + AnnouncedLength(result.off)
        IN /\ pos - Len(buf) = result.off
           /\ last_block_len = AnnouncedLength(result.off)
           /\ r.c.pos - Len(r.c.buf) = after
           /\ \A j \in 1..Len(blocks) :
                (/\ StartOf(j) = after
                 /\ blocks[j].k \in PacketKinds
                 /\ blocks[j].fr = "ok"
                 /\ blocks[j].cap = Len(blocks[j].data))
                => /\ r.ret = "ok"
                   /\ get(r.c).st = "ok"
                   /\ get(r.c).v # None
                   /\ get(r.c).v[1].data = blocks[j].data

\* C7: a packet's non-null interface id (s, i) resolves, through
\* lookup_interface while the packet is current, to the interface whose id
\* is (s, i); a packet whose interface_id is not in the table has no
\* interface id and no timestamp.
C7_InterfaceIdResolves ==
    (pc = "idle" /\ result.tag = "pkt") =>
        LET pkt == result.pkt[1]
        IN /\ pkt.interface # None =>
                LET id == pkt.interface[1]
                    found == lookup_interface(id[1], id[2])
                IN found # None /\ found[1].id = id
           /\ pkt.interface = None => pkt.timestamp = None

\* C8: when a packet of a well-formed capture is returned, the interface
\* table holds the IDBs written since the last SHB, in order, the k-th
\* with index k-1, no id twice.
C8_TableIsIdbsOfSection ==
    (/\ pc = "idle"
     /\ result.tag = "pkt"
     /\ WellFormed(blocks)
     /\ IsBlockStart(result.off))
    => LET idbs == IdbsBefore(blocks, BlockIndexAt(result.off))
       IN /\ Len(interfaces) = Len(idbs)
          /\ \A k \in 1..Len(interfaces) : interfaces[k].id[2] = k - 1
          /\ \A k, h \in 1..Len(interfaces) :
                interfaces[k].id = interfaces[h].id => k = h

\* C9: the section component of interface ids counts from 0: a packet of
\* the n-th section of a well-formed capture carries n-1.
C9_SectionIndexFromZero ==
    (/\ pc = "idle"
     /\ result.tag = "pkt"
     /\ result.pkt[1].interface # None
     /\ WellFormed(blocks)
     /\ IsBlockStart(result.off))
    => result.pkt[1].interface[1][1] =
           SectionsUpTo(blocks, BlockIndexAt(result.off)) - 1

\* C10: lookup_interface((s, i)) returns none when s is not the current
\* section, also when the current table has an index i; an id that does
\* resolve resolves to the interface registered under that same id.
C10_LookupOtherSectionIsNone ==
    looked # None =>
        /\ looked[1].id[1] # looked[1].section => looked[1].interface = None
        /\ looked[1].interface # None =>
               looked[1].interface[1].id = looked[1].id

\* C10 witness: an id given with a packet of an earlier section was looked
\* up in a later section whose table has that index, and did not resolve.
C10_Witness ==
    /\ looked # None
    /\ looked[1].id \in held
    /\ looked[1].id[1] # current_section
    /\ looked[1].id[2] < Len(interfaces)
    /\ looked[1].interface = None

\* A packet block as its writer meant it: framed, captured_len the length
\* of the data present.
SoundPacketBlock(d) ==
    d.k \in PacketKinds /\ d.fr = "ok" /\ d.cap = Len(d.data)

\* C11: every block is decoded in the byte order that the magic of the
\* most recent SHB declares: the reader's byte order changes only at an SHB
\* with a valid magic, and a packet block decoded where it was written, in
\* whichever byte order its section has, gives the data written.
C11_ByteOrderOfLastShb ==
    /\ pc \in {"idle", "advance", "panicked"} => endianness = declared
    /\ (/\ pc = "idle"
        /\ result.tag = "pkt"
        /\ IsBlockStart(result.off)
        /\ SoundPacketBlock(blocks[BlockIndexAt(result.off)]))
       => result.pkt[1].data = blocks[BlockIndexAt(result.off)].data

\* C11 witness: a packet of a little-endian section and then a packet of a
\* big-endian section have been returned.
C11_Witness ==
    /\ pc = "idle"
    /\ result.tag = "pkt"
    /\ blocks[1] = ShbL
    /\ endianness = "Big"
    /\ current_section = 2
    /\ delivered = <<Epb0.data, Epb1.data>>

\* The packets next() returns from capture c on, on a source whose reads
\* succeed, until end of stream, a panic or an error that repeats; n bounds
\* the number of calls.
RECURSIVE packets_from(_, _)
packets_from(c, n) ==
    IF n = 0 THEN <<>>
    ELSE LET r == next(c)
         IN CASE r.tag = "pkt" -> <<r.pkt[1]>> \o packets_from(r.c, n - 1)
              [] r.tag = "err" /\ r.c # c -> packets_from(r.c, n - 1)
              [] OTHER -> <<>>

\* The packets a Capture newly created on the source returns.
FreshPackets ==
    IF Capture_new.st = "ok" THEN packets_from(Capture_new.v, Len(src))
    ELSE <<>>

\* C12: after rewind() the capture returns what a Capture newly created on
\* the same source returns: the k-th packet returned since the rewind is
\* the k-th packet of the new Capture, timestamp, interface id, data and
\* data offset included.
C12_RewindIsFresh ==
    (pc = "idle" /\ rewinds > 0 /\ io_errors = 0 /\ result.tag = "pkt")
    => /\ Len(delivered) <= Len(FreshPackets)
       /\ result.pkt[1] = FreshPackets[Len(delivered)]

\* C13: a read of the source that fails during next() leaves the reader as
\* it was: the packets returned by the retry and by the later calls are the
\* packets returned when no read fails, with the same data and data offset
\* (no block skipped, no byte counted twice).
C13_IoErrorRetrySafe ==
    (pc = "idle" /\ io_errors > 0 /\ rewinds = 0 /\ result.tag = "pkt")
    => /\ Len(delivered) <= Len(FreshPackets)
       /\ result.pkt[1].data = FreshPackets[Len(delivered)].data
       /\ result.pkt[1].data_offset = FreshPackets[Len(delivered)].data_offset

\* The packets a new Capture returns on a source that delivers all its bytes
\* in the first read: the buffer holds the whole source from the start.
WholeReadPackets ==
    IF Capture_new.st = "ok"
    THEN packets_from([Capture_new.v EXCEPT !.buf = src, !.pos = Len(src)],
                      Len(src))
    ELSE <<>>

\* C14: what next() returns does not depend on how the source splits its
\* bytes across reads: on a source of short reads the k-th packet returned
\* is the k-th packet returned when one read delivers everything, and at
\* end of stream as many packets have been returned (a block the buffer
\* holds in part is completed by a further read, not reported as an error).
C14_ReadSplitIndependent ==
    (pc = "idle" /\ io_errors = 0 /\ rewinds = 0)
    => /\ result.tag = "pkt" =>
            /\ Len(delivered) <= Len(WholeReadPackets)
            /\ result.pkt[1] = WholeReadPackets[Len(delivered)]
       /\ result.tag = "none" => Len(delivered) = Len(WholeReadPackets)

\* The source begins with the block type code of an SHB.
StartsWithShbType ==
    Len(src) >= 4 /\ Slice(src, 0, 4) = ShbTypeBytes

UnitsOf(opt) ==
    LET v == TsresolOf(opt)
    IN IF v < 0 THEN 1000000
       ELSE IF v \div 128 = 1 THEN 2 ^ (v % 128)
       ELSE 10 ^ (v % 128)

\* Source offset of the block at the head of the buffer.
HeadOffset == pos - Len(buf)

\* C16: the interface registered for an IDB has units_per_sec 10^6 when the
\* IDB has no if_tsresol option, and otherwise base^exponent as the
\* if_tsresol byte gives them.
C16_UnitsPerSecOfTsresol ==
    [][(/\ pc = "advance"
        /\ Len(interfaces') = Len(interfaces) + 1
        /\ IsBlockStart(HeadOffset')
        /\ blocks[BlockIndexAt(HeadOffset')].k = "IDB")
       => interfaces'[Len(interfaces')].units_per_sec =
              UnitsOf(blocks[BlockIndexAt(HeadOffset')].opt)]_vars

C16_Witness ==
    /\ blocks = <<ShbL, Idb, IdbTsBin3, Epb1>>
    /\ Len(interfaces) = 2
    /\ interfaces[1].units_per_sec = 1000000
    /\ interfaces[2].units_per_sec = 8
    /\ result.tag = "pkt"

\* The block the last call of next() stopped at, when the call returned a
\* packet decoded at the start of a block the file was written from.
ResultAtBlock ==
    pc = "idle" /\ result.tag = "pkt" /\ IsBlockStart(result.off)

ResultBlock == blocks[BlockIndexAt(result.off)]

\* C17: a packet with raw timestamp ts (the value its block was decoded
\* to, which is the value written when the high word is 0) on an interface
\* of units_per_sec u has ts div u seconds and ((ts mod u) * 10^9) div u
\* nanoseconds, fewer than 10^9; with if_tsresol 9 and ts = 10^9 that is
\* exactly one second.  (For u a divisor of 10^9, as in every input here,
\* ((ts mod u) * 10^9) div u = (ts mod u) * (10^9 div u).)
C17_TimestampConversion ==
    (/\ ResultAtBlock
     /\ ResultBlock.k \in {"EPB", "OPB"}
     /\ SoundPacketBlock(ResultBlock)
     /\ ResultBlock.ifc < Len(interfaces)
     /\ 1000000000 % interfaces[ResultBlock.ifc + 1].units_per_sec = 0)
    => LET ts == TsValue(current_timestamp[1])
           u == interfaces[ResultBlock.ifc + 1].units_per_sec
           t == result.pkt[1].timestamp
       IN /\ TsHiOf(ResultBlock) = 0 => ts = TsOf(ResultBlock)
          /\ t = Some([secs |-> ts \div u,
                       nanos |-> (ts % u) * (1000000000 \div u)])
          /\ t[1].nanos < 1000000000
          /\ (u = 1000000000 /\ ts = 1000000000)
             => t[1] = [secs |-> 1, nanos |-> 0]

C17_Witness ==
    /\ ResultAtBlock
    /\ blocks = <<ShbB, IdbTs9, EpbTs1e9>>
    /\ ResultBlock = EpbTs1e9
    /\ interfaces[1].units_per_sec = 1000000000
    /\ result.pkt[1].timestamp = Some([secs |-> 1, nanos |-> 0])

\* An IDB written with options opt has an if_tsresol whose base^exponent
\* does not fit 32 bits.
TsresolOverflows(opt) ==
    LET v == TsresolOf(opt)
    IN /\ v >= 0
       /\ IF v \div 128 = 1 THEN v % 128 >= 32 ELSE v % 128 >= 10

\* C18: an IDB whose if_tsresol does not fit 32 bits is still registered at
\* its index, and every packet that references it is returned with no
\* timestamp.
C18_OverflowingTsresolRegistered ==
    (/\ ResultAtBlock
     /\ io_errors = 0
     /\ ResultBlock.k \in {"EPB", "OPB"}
     /\ SoundPacketBlock(ResultBlock)
     /\ ResultBlock.ifc < Len(IdbsBefore(blocks, BlockIndexAt(result.off)))
     /\ TsresolOverflows(
            IdbsBefore(blocks, BlockIndexAt(result.off))[ResultBlock.ifc + 1].opt))
    => /\ result.pkt[1].timestamp = None
       /\ lookup_interface(current_section, ResultBlock.ifc) # None

\* C19: the payload of a Simple Packet Block is what follows packet_len in
\* its body: an SPB that holds fewer than packet_len bytes of payload is
\* decoded into a packet with those bytes, fewer than packet_len, and is not
\* answered with an error.
C19_TruncatedSpbDecoded ==
    (/\ pc = "idle"
     /\ io_errors = 0
     /\ chunk > Len(src)
     /\ result.tag \in {"pkt", "err"}
     /\ IsBlockStart(result.off)
     /\ ResultBlock.k = "SPB"
     /\ ResultBlock.fr = "ok"
     /\ Len(ResultBlock.data) < ResultBlock.cap
     /\ WellFormed(SubSeq(blocks, 1, BlockIndexAt(result.off))))
    => /\ result.tag = "pkt"
       /\ result.pkt[1].data = ResultBlock.data
       /\ Len(result.pkt[1].data) < ResultBlock.cap

\* C20: a packet of a Simple Packet Block has no timestamp and no interface
\* id, whichever packets were returned before it.
C20_SpbHasNoTimestampNoInterface ==
    (ResultAtBlock /\ ResultBlock.k = "SPB" /\ ResultBlock.fr = "ok")
    => /\ result.pkt[1].timestamp = None
       /\ result.pkt[1].interface = None

C20_Witness ==
    /\ ResultAtBlock
    /\ blocks = <<ShbL, Idb, Idb, Epb1, Spb, Opb>>
    /\ ResultBlock = Spb
    /\ delivered = <<Epb1.data, Spb.data>>
    /\ held = {<<1, 1>>}
    /\ result.pkt[1].timestamp = None
    /\ result.pkt[1].interface = None

\* C21: the timestamp of an Obsolete Packet Block, as of an Enhanced Packet
\* Block, is hi * 2^32 + lo, hi and lo being the two words written, read in
\* the byte order of the section.  (The timestamp is kept as hi, lo and the
\* shift sh applied to hi: hi * 2^sh + lo = hi * 2^32 + lo exactly when
\* hi = 0 or sh = 32.)
C21_TimestampOfTwoWords ==
    (/\ ResultAtBlock
     /\ ResultBlock.k \in {"EPB", "OPB"}
     /\ SoundPacketBlock(ResultBlock))
    => /\ current_timestamp # None
       /\ current_timestamp[1].hi = TsHiOf(ResultBlock)
       /\ current_timestamp[1].lo = TsOf(ResultBlock)
       /\ current_timestamp[1].hi = 0 \/ current_timestamp[1].sh = 32

\* C22: creating a capture asks the source for no byte: until the first
\* call of next() nothing has been read.
C22_NewReadsNothing ==
    (pc \in {"start", "idle"} /\ rewinds = 0 /\ result = NoResult)
    => pos = 0 /\ buf = <<>>

\* A call of fn has returned.
Returned(fn) == pc = "pure" /\ call.fn = fn /\ returned # None

\* The byte order parse_frame reads the length fields in: the one passed,
\* or the one an SHB's magic declares ("none": no byte-order magic).
FrameOrder(b, en) ==
    IF Slice(b, 0, 4) # ShbTypeBytes THEN en
    ELSE IF Slice(b, 8, 12) = MagicBig THEN "Big"
    ELSE IF Slice(b, 8, 12) = MagicLittle THEN "Little"
    ELSE "none"

\* C23: parse_frame answers 'need more input' to fewer than 12 bytes and to
\* a valid header whose block is longer than the buffer; an error to an SHB
\* without byte-order magic, to a total length below 12 and to a trailing
\* length that differs; and otherwise the type and total_length - 12, the
\* lengths being read in the byte order as updated by an SHB's magic.  It
\* reads nothing outside the buffer.
C23_ParseFrameResult ==
    Returned("parse_frame") =>
        LET b == call.buf
            r == returned[1].res
            e == FrameOrder(b, call.endianness)
            total == read_u32(e, Slice(b, 4, 8))
        IN /\ r.st # "panic"
           /\ IF Len(b) < 12 THEN r = Ok(None)
              ELSE IF e = "none" THEN r.st = "err"
              ELSE IF total < 12 THEN r.st = "err"
              ELSE IF Len(b) < total THEN r = Ok(None)
              ELSE IF read_u32(e, Slice(b, total - 4, total)) # total
              THEN r.st = "err"
              ELSE r = Ok(Some(<<read_u32(e, Slice(b, 0, 4)), total - 12>>))

\* An SHB written big-endian, framed by a caller whose byte order was
\* little-endian.
C23_Witness ==
    /\ Returned("parse_frame")
    /\ call.buf = BlockBytes(ShbB, "Big")
    /\ call.endianness = "Little"
    /\ returned[1] = FrameRet(Ok(Some(<<TypeSHB, 16>>)), "Big")

\* C24: a block the framer accepts has a total length that is a multiple
\* of 4; matching length fields that are not divisible by 4 are not framed.
C24_FramedLengthMultipleOf4 ==
    (/\ Returned("parse_frame")
     /\ returned[1].res.st = "ok"
     /\ returned[1].res.v # None)
    => (returned[1].res.v[1][2] + 12) % 4 = 0

\* The length of the fixed fields of the body of a block of type ty.
FixedLen(ty) ==
    CASE ty = TypeSHB -> 16
      [] ty = 1 -> 8
      [] ty = 2 -> 20
      [] ty = 3 -> 4
      [] ty = 5 -> 12
      [] ty = 6 -> 20
      [] OTHER -> 0

\* C25: a body decoder handed a body shorter than the fixed fields of its
\* block (an SHB body of 12 to 15 bytes, an EPB body of fewer than 20, an
\* empty SPB body) returns a truncated-block error: it does not read past
\* the end of the body.
C25_ShortBodyIsTruncatedBlock ==
    /\ (Returned("Block::parse") /\ Len(call.buf) < FixedLen(call.len))
       => returned[1].st = "err"
    /\ (Returned("SectionHeader::parse") /\ Len(call.buf) < FixedLen(TypeSHB))
       => returned[1].st = "err"

\* What a reader of the option list opts, of which n bytes were handed
\* over, passes on: the records that are whole within the n bytes and come
\* before the first end-of-options record, less the discarded types.
RECURSIVE ExpectedOptions(_, _)
ExpectedOptions(opts, n) ==
    IF opts = <<>> THEN <<>>
    ELSE LET o == Head(opts)
             size == 4 + Len(o.val) + PadLen(Len(o.val))
         IN IF size > n \/ o.ty = 0 THEN <<>>
            ELSE (IF o.ty \in {1, 2988, 2989, 19372, 19373} THEN <<>>
                  ELSE <<<<o.ty, o.val>>>>)
                 \o ExpectedOptions(Tail(opts), n - size)

\* C26: parse_options passes to the callback exactly the options that come
\* before the first end-of-options record and before the first truncated
\* record, in order, each with its value without the padding, and never an
\* option of type 0, 1, 2988, 2989, 19372 or 19373.
C26_OptionsPassedToCallback ==
    Returned("parse_options") =>
        /\ returned[1] = ExpectedOptions(call.from, Len(call.buf))
        /\ \A i \in 1..Len(returned[1]) :
              returned[1][i][1] \notin {0, 1, 2988, 2989, 19372, 19373}

\* An option list with an end-of-options record in the middle, handed over
\* whole.
C26_Witness ==
    /\ Returned("parse_options")
    /\ call.from = <<Opt(2, <<6, 7>>), Opt(0, <<>>), Opt(2, <<6, 7>>)>>
    /\ Len(call.buf) = 20
    /\ returned[1] = <<<<2, <<6, 7>>>>>>

\* C29: read_bytes(buf, len) fails with TruncatedBlock and leaves the
\* cursor where it was when fewer than len + pad bytes remain, where
\* pad = (4 - len mod 4) mod 4; otherwise it returns exactly len bytes and
\* advances the cursor by len + pad, the smallest multiple of 4 not below
\* len.  This for every u32 len: len + pad never wraps.
C29_ReadBytesAdvancesPadded ==
    Returned("read_bytes") =>
        LET r == returned[1]
            pad == PadLen(call.len)
            short == call.hi > 0 \/ Len(call.buf) < call.len + pad
        IN /\ r.st # "panic"
           /\ short => r.st = "err" /\ r.err = "TruncatedBlock"
                        /\ r.rest = call.buf
           /\ ~short => /\ r.st = "ok"
                         /\ r.v = SubSeq(call.buf, 1, call.len)
                         /\ Len(r.rest) = Len(call.buf) - (call.len + pad)
                         /\ r.rest = From(call.buf, call.len + pad)
                         /\ (call.len + pad) % 4 = 0
                         /\ pad < 4

\* The file has an IDB with options in opts, and no IDB with other options
\* than those and none.
IdbOptionsAmong(opts) ==
    /\ \E j \in 1..Len(blocks) : blocks[j].k = "IDB" /\ blocks[j].opt \in opts
    /\ \A j \in 1..Len(blocks) :
          blocks[j].k = "IDB" => blocks[j].opt \in opts \cup {"none"}

\* A packet was returned for an EPB or OPB, and the interface it names in
\* its section is registered with the units its IDB announces.
PacketInterfaceRegistered ==
    (ResultAtBlock /\ ResultBlock.k \in {"EPB", "OPB"})
    => LET idbs == IdbsBefore(blocks, BlockIndexAt(result.off))
           i == lookup_interface(current_section, ResultBlock.ifc)
       IN /\ i # None
          /\ i[1].units_per_sec = UnitsOf(idbs[ResultBlock.ifc + 1].opt)

\* C27: an IDB with a truncated option does not fail: in a file that is
\* otherwise well-formed, read whole and without I/O errors, no call
\* returns an error or aborts, and a packet that follows is returned with
\* its interface registered, with the if_tsresol decoded before the
\* truncation.
C27_TruncatedOptionIdbRegistered ==
    (/\ WellFormed(blocks)
     /\ IdbOptionsAmong({"opttrunc", "tstrunc", "ts9trunc"})
     /\ chunk > Len(src)
     /\ io_errors = 0)
    => /\ pc # "panicked"
       /\ result.tag # "err"
       /\ PacketInterfaceRegistered

\* C28: bytes after the end-of-options record of an IDB are tolerated: in
\* a file that is otherwise well-formed, read whole and without I/O errors,
\* no call returns an error, and a packet that follows is returned with its
\* interface registered.
C28_BytesAfterEndOfOptionsTolerated ==
    (/\ WellFormed(blocks)
     /\ IdbOptionsAmong({"afterend"})
     /\ chunk > Len(src)
     /\ io_errors = 0)
    => /\ pc # "panicked"
       /\ result.tag # "err"
       /\ PacketInterfaceRegistered

\* The SHB that opens the section of block j does not decode (its body is
\* cut short), and no IDB lies between it and block j.
AfterCorruptShb(j) ==
    /\ SectionStart(blocks, j) > 1
    /\ blocks[SectionStart(blocks, j)] = ShbShort
    /\ IdbsBefore(blocks, j) = <<>>

\* C30: a corrupt SHB, framed but with a body that does not decode, still
\* starts a new section: a packet that follows it, before any IDB, finds no
\* interface of the previous section and has no timestamp.
C30_CorruptShbStartsSection ==
    (/\ ResultAtBlock
     /\ ResultBlock.k \in {"EPB", "OPB"}
     /\ SoundPacketBlock(ResultBlock)
     /\ AfterCorruptShb(BlockIndexAt(result.off)))
    => /\ result.pkt[1].timestamp = None
       /\ lookup_interface(current_section, ResultBlock.ifc) = None
       /\ interfaces = <<>>

\* C31: a corrupt IDB, framed but with a body that does not decode, keeps
\* its index in the interface table of its section: a packet that names an
\* IDB written after it resolves to that IDB, with the units it announces.
C31_CorruptIdbKeepsIndex ==
    (/\ ResultAtBlock
     /\ io_errors = 0
     /\ ResultBlock.k \in {"EPB", "OPB"}
     /\ SoundPacketBlock(ResultBlock)
     /\ LET idbs == IdbsBefore(blocks, BlockIndexAt(result.off))
        IN /\ ResultBlock.ifc < Len(idbs)
           /\ \A i \in 1..Len(idbs) :
                \/ idbs[i] = IdbShort
                \/ idbs[i].fr = "ok" /\ idbs[i].opt \in {"none", "ts9"}
           /\ \E i \in 1..ResultBlock.ifc : idbs[i] = IdbShort
           /\ idbs[ResultBlock.ifc + 1] # IdbShort)
    => LET idbs == IdbsBefore(blocks, BlockIndexAt(result.off))
           i == lookup_interface(current_section, ResultBlock.ifc)
       IN /\ i # None
          /\ i[1].units_per_sec = UnitsOf(idbs[ResultBlock.ifc + 1].opt)
          /\ result.pkt[1].timestamp # None

\* The ISBs of block j's section that precede block j and name an
\* interface defined before them.
IsbsBefore(j) ==
    {i \in (SectionStart(blocks, j) + 1)..(j - 1) :
        /\ blocks[i].k = "ISB"
        /\ blocks[i].fr = "ok"
        /\ blocks[i].ifc < Len(IdbsBefore(blocks, i))}

\* C32: once an ISB that names an interface defined in the current section
\* has been decoded, the record lookup_interface returns for that interface
\* carries the statistics of the ISB.
C32_IsbStatisticsAttached ==
    (/\ ResultAtBlock
     /\ io_errors = 0
     /\ WellFormed(SubSeq(blocks, 1, BlockIndexAt(result.off))))
    => \A i \in IsbsBefore(BlockIndexAt(result.off)) :
          LET r == lookup_interface(current_section, blocks[i].ifc)
          IN /\ r # None
             /\ "stats" \in DOMAIN r[1]
             /\ r[1].stats # None
             /\ r[1].stats[1].interface_id = blocks[i].ifc

\* C33: whenever a block decode starts or a call has returned, n_bytes_read
\* is the number of source bytes that precede the head of the buffer, the
\* sum of the total lengths of the blocks consumed, and so never more than
\* the bytes taken from the source; this without any I/O error.
C33_BytesReadIsHeadOffset ==
    (pc \in {"idle", "advance"} /\ io_errors = 0)
    => /\ n_bytes_read = HeadOffset
       /\ n_bytes_read <= pos

\* C34: get() returns a packet only when the last advance() returned Ok for
\* a packet block: before the first call, after rewind(), after a call that
\* returned an error and after end-of-stream, get() returns None.
C34_GetOnlyAfterPacket ==
    (pc = "idle" /\ result.tag \in {"init", "err", "none"})
    => get(Cap) = Ok(None)

\* C35: end-of-stream is sticky: once next() has returned None, a later
\* call of next() that is not preceded by rewind() and whose reads of the
\* source do not fail returns None too.
C35_EndOfStreamSticky ==
    [][(/\ pc = "advance"
        /\ result.tag = "none"
        /\ pc' # "advance"
        /\ io_errors' = io_errors)
       => (pc' = "idle" /\ result'.tag = "none")]_vars

\* next() has returned None at the end of a file with a packet in it, and
\* the caller has called next() again without a rewind in between.
C35_Witness ==
    /\ pc = "advance"
    /\ result.tag = "none"
    /\ finished
    /\ delivered # <<>>
    /\ rewinds = 0

\* Bytes appended to a buffer the framer has answered.
FrameTails == {<<0>>, <<1, 2, 3>>, <<0, 0, 0, 0, 12, 0, 0, 0>>}

\* C36: the framer's answer is stable: a second call on the same buffer,
\* with the byte order the first call left, gives the same answer and
\* leaves the same byte order; and a complete frame or an error stays the
\* same, with the same byte order left, when bytes are appended to the
\* buffer.  Only 'need more input' may change.
C36_FrameDecisionStable ==
    Returned("parse_frame") =>
        LET r == returned[1]
        IN /\ parse_frame(call.buf, r.endianness) = r
           /\ r.res # Ok(None) =>
                \A t \in FrameTails :
                    parse_frame(call.buf \o t, call.endianness) = r

\* A big-endian SHB with three more bytes after it, framed by a caller
\* whose byte order was little-endian.
C36_Witness ==
    /\ Returned("parse_frame")
    /\ call.buf = BlockBytes(ShbB, "Big") \o <<1, 2, 3>>
    /\ call.endianness = "Little"
    /\ returned[1] = FrameRet(Ok(Some(<<TypeSHB, 16>>)), "Big")

\* C37: the assertion of advance() on the byte order of a decoded SHB never
\* fails, and a pass of the loop that decodes an SHB (the section index
\* goes up) leaves the capture in the byte order which the magic of that
\* SHB, now at the head of the buffer, declares.
C37_ShbDecodedInItsOwnOrder ==
    [][pc = "advance" =>
         /\ advance_iter(Cap).err # "assert_eq"
         /\ current_section' = current_section + 1 =>
               /\ pc' # "panicked"
               /\ DeclaredAt(HeadOffset') # "none"
               /\ endianness' = DeclaredAt(HeadOffset')]_vars

\* A big-endian SHB has been decoded right after a little-endian one.
C37_Witness ==
    /\ blocks = <<ShbL, ShbB>>
    /\ pc = "advance"
    /\ current_section = 2
    /\ HeadOffset = StartOf(2)
    /\ endianness = "Big"

\* The powers of 10 and of 2 that u32::checked_pow returns for the
\* exponents of the inputs: all at least 1 and below 2^32.
FittingUnits == {10 ^ e : e \in 0..9} \cup {2 ^ e : e \in 0..30}

\* C38: every registered interface has units_per_sec between 1 and
\* 2^32 - 1, so the conversion of a timestamp never divides by zero; the
\* remainder ts mod units_per_sec is below units_per_sec, hence below
\* 2^64 div 10^9 (here: its 16th part below the 16th part of that), so the
\* product with 10^9 fits 64 bits; and the nanoseconds are below 10^9.
C38_UnitsAndNanosInRange ==
    /\ \A i \in 1..Len(interfaces) :
          /\ interfaces[i].units_per_sec >= 1
          /\ interfaces[i].units_per_sec \in FittingUnits
    /\ (pc = "idle" /\ result.tag = "pkt"
        /\ result.pkt[1].timestamp # None)
       => LET u == interfaces[current_interface[1] + 1].units_per_sec
              r == TsValue(current_timestamp[1]) % u
              t == result.pkt[1].timestamp[1]
          IN /\ r < u
             /\ r \div 16 < 1152921504
             /\ t.nanos >= 0
             /\ t.nanos < 1000000000
             /\ t.secs = TsValue(current_timestamp[1]) \div u

\* A packet on an interface whose if_tsresol is 0: one unit per second.
C38_Witness ==
    /\ blocks = <<ShbL, IdbTs0, Epb0>>
    /\ pc = "idle"
    /\ result.tag = "pkt"
    /\ interfaces[1].units_per_sec = 1
    /\ result.pkt[1].timestamp = Some([secs |-> TsOf(Epb0), nanos |-> 0])

====
